---------------------------- MODULE Spec2Model ----------------------------
(***************************************************************************)
(* A model of src/main.py: the frequency profiler (Fuzzable), the          *)
(* containment matcher (compare_dicts), the highlighter (colorize), the    *)
(* directory scan (main) and the command-line entry point.                 *)
(*                                                                         *)
(* A character is a one-character string, a Python str is a sequence of    *)
(* characters.  Python indices are zero-based: the character at Python     *)
(* index i of s is s[i + 1] here.  A profile entry, the two-element list   *)
(* [count, positions] of line 33, is the tuple <<count, positions>>: its   *)
(* Python element [0] is component 1 and its element [1] is component 2.   *)
(***************************************************************************)
EXTENDS Integers, Sequences, FiniteSets, TLC

VARIABLES
    pc,              \* the position of the program
    env,             \* what the run is given: argv, working directory, file system
    color,           \* the colour name main receives
    files_iter,      \* the entries os.scandir has still to yield
    fuzzable_query,  \* the Fuzzable of the query
    fuzzable_file,   \* the Fuzzable of the candidate last profiled
    ret,             \* what the last compare_dicts call returned
    stdout,          \* the lines printed, in order
    stderr,          \* the messages written to sys.stderr, in order
    exit_code,       \* the process's exit status, once it has one
    n_fuzzable,      \* the number of Fuzzable objects built
    n_compare,       \* the number of compare_dicts calls
    n_colorize       \* the number of colorize calls

vars == <<pc, env, color, files_iter, fuzzable_query, fuzzable_file, ret,
          stdout, stderr, exit_code, n_fuzzable, n_compare, n_colorize>>

----------------------------------------------------------------------------
(* Bounds of the model                                                     *)

MaxCandLen == 4
MaxQueryLen == 3
MaxEntries == 3

----------------------------------------------------------------------------
(* Sequences and strings                                                   *)

Min(a, b) == IF a <= b THEN a ELSE b

Range(s) == {s[i] : i \in 1..Len(s)}

\* Python's s[:n] for n >= 0
SliceTo(s, n) == SubSeq(s, 1, Min(n, Len(s)))

\* Python's s[n:] for n >= 0
SliceFrom(s, n) == SubSeq(s, n + 1, Len(s))

RECURSIVE StringsUpTo(_, _)
StringsUpTo(alphabet, n) ==
    IF n = 0 THEN {<<>>}
    ELSE LET shorter == StringsUpTo(alphabet, n - 1)
         IN shorter \cup {Append(s, c) : s \in shorter, c \in alphabet}

\* string.printable (line 17), in its own order: digits, ascii_lowercase,
\* ascii_uppercase, punctuation, whitespace.  "\\x60" stands for the grave
\* accent and "\\x0b" for the vertical tab, which cannot be written in a
\* string here.
printable ==
    <<"0", "1", "2", "3", "4", "5", "6", "7", "8", "9",
      "a", "b", "c", "d", "e", "f", "g", "h", "i", "j", "k", "l", "m",
      "n", "o", "p", "q", "r", "s", "t", "u", "v", "w", "x", "y", "z",
      "A", "B", "C", "D", "E", "F", "G", "H", "I", "J", "K", "L", "M",
      "N", "O", "P", "Q", "R", "S", "T", "U", "V", "W", "X", "Y", "Z",
      "!", "\"", "#", "$", "%", "&", "'", "(", ")", "*", "+", ",", "-",
      ".", "/", ":", ";", "<", "=", ">", "?", "@", "[", "\\", "]", "^",
      "_", "\\x60", "{", "|", "}", "~",
      " ", "\t", "\n", "\r", "\\x0b", "\f">>

PrintableSet == Range(printable)

----------------------------------------------------------------------------
(* class Fuzzable                                                          *)

\* letter_counts after the first n iterations of the loop of lines 34-36
RECURSIVE letter_counts(_, _)
letter_counts(path, n) ==
    IF n = 0 THEN [x \in PrintableSet |-> <<0, <<>>>>]
    ELSE LET lc == letter_counts(path, n - 1)
             idx == n - 1
             char == path[n]
         IN [lc EXCEPT ![char] = <<@[1] + 1, Append(@[2], idx)>>]

\* letter_counts[char] of line 35 raises KeyError for a char that is no key
FuzzableRaises(path) == \E i \in 1..Len(path) : path[i] \notin PrintableSet

\* A variant of line 38 that keeps a character only from its second
\* occurrence on (y[0] > 1)
non_zero_mut(path) ==
    LET lc == letter_counts(path, Len(path))
    IN [x \in {k \in PrintableSet : lc[k][1] > 1} |-> lc[x]]

\* line 38
non_zero(path) ==
    LET lc == letter_counts(path, Len(path))
    IN [x \in {k \in PrintableSet : lc[k][1] > 0} |-> lc[x]]

\* A dict keeps insertion order: the keys of a non_zero dict, in the order
\* the comprehension of line 38 inserts them, which is that of printable.
Keys(d) == SelectSeq(printable, LAMBDA x : x \in DOMAIN d)

\* What no object is bound to yet
Unbound == [unbound |-> TRUE]

\* Fuzzable(path), for a path that does not raise.  shared is unset by
\* __init__ (line 28).  compare_dicts stores in it a dict whose values are
\* the very list objects that are the values of non_zero, so shared is kept
\* as its keys and its values are read through non_zero (SharedDict).
Fuzzable(path) ==
    [path |-> path, non_zero |-> non_zero(path), has_shared |-> FALSE,
     shared |-> <<>>]

SharedDict(f) == [k \in Range(f.shared) |-> f.non_zero[k]]

----------------------------------------------------------------------------
(* compare_dicts                                                           *)

\* A variant of line 57 with a strict comparison
SizeOkMut(file_count, query_count) == file_count > query_count

\* lines 55-57
SizeOk(file_count, query_count) == file_count >= query_count

\* A variant of line 59 that keeps the last query_count positions
TruncateMut(entry, query_count) ==
    <<entry[1], SliceFrom(entry[2], Len(entry[2]) - Min(query_count, Len(entry[2])))>>

\* line 59: the slice is stored in the list object that fuzz1.non_zero holds
Truncate(entry, query_count) == <<entry[1], SliceTo(entry[2], query_count)>>

\* The loop of lines 54-59 from its i-th key on: nz is fuzz1.non_zero as the
\* earlier iterations left it.
RECURSIVE CheckSizes(_, _, _, _)
CheckSizes(nz, keys, i, q_nz) ==
    IF i > Len(keys) THEN [ret |-> TRUE, non_zero |-> nz]
    ELSE LET key == keys[i]
             file_count == nz[key][1]
             query_count == q_nz[key][1]
         IN IF ~SizeOk(file_count, query_count)
            THEN [ret |-> FALSE, non_zero |-> nz]
            ELSE CheckSizes([nz EXCEPT ![key] = Truncate(@, query_count)],
                            keys, i + 1, q_nz)

\* line 48: the keys of common_dict, in fuzz1.non_zero's order
CommonKeys(fuzz1, fuzz2) ==
    SelectSeq(Keys(fuzz1.non_zero), LAMBDA x : x \in DOMAIN fuzz2.non_zero)

\* compare_dicts(fuzz1, fuzz2): what it returns, and fuzz1 as it leaves it.
\* fuzz2 is only read.
compare_dicts(fuzz1, fuzz2) ==
    LET common == CommonKeys(fuzz1, fuzz2)
    IN IF Len(common) # Cardinality(DOMAIN fuzz2.non_zero)
       THEN [ret |-> FALSE, fuzz1 |-> fuzz1]
       ELSE LET r == CheckSizes(fuzz1.non_zero, common, 1, fuzz2.non_zero)
            IN IF r.ret
               THEN [ret |-> TRUE,
                     fuzz1 |-> [fuzz1 EXCEPT !.non_zero = r.non_zero,
                                             !.has_shared = TRUE,
                                             !.shared = common]]
               ELSE [ret |-> FALSE,
                     fuzz1 |-> [fuzz1 EXCEPT !.non_zero = r.non_zero]]

----------------------------------------------------------------------------
(* Paths (os.path, pathlib) and terminal colours (termcolor)               *)

\* os.path.join(a, b): an absolute b discards a
os_path_join(a, b) ==
    IF b # <<>> /\ b[1] = "/" THEN b
    ELSE IF a = <<>> \/ a[Len(a)] = "/" THEN a \o b
    ELSE a \o <<"/">> \o b

\* str(pathlib.Path(s)) for a non-empty s: runs of "/" collapse to one and
\* the trailing "/" goes, unless the path is the root
RECURSIVE Collapse(_)
Collapse(s) ==
    IF Len(s) <= 1 THEN s
    ELSE IF s[1] = "/" /\ s[2] = "/" THEN Collapse(Tail(s))
    ELSE <<s[1]>> \o Collapse(Tail(s))

PathStr(s) ==
    LET c == Collapse(s)
    IN IF Len(c) > 1 /\ c[Len(c)] = "/" THEN SubSeq(c, 1, Len(c) - 1) ELSE c

\* The process's working directory
Cwd == <<"/", "w">>

\* str(Path(p).absolute()) for a normalised p
absolute(p) == IF p[1] = "/" THEN p ELSE os_path_join(Cwd, p)

\* The index of the last "/" of p, 0 when it has none
LastSlash(p) ==
    LET at == {i \in 1..Len(p) : p[i] = "/"}
    IN IF at = {} THEN 0 ELSE CHOOSE i \in at : \A j \in at : j <= i

\* str(Path(p).parent) for a normalised absolute p
parent(p) == IF LastSlash(p) <= 1 THEN <<"/">> ELSE SubSeq(p, 1, LastSlash(p) - 1)

\* The choices of -c/--color (lines 122-140), which are termcolor's colours
Colors ==
    {"black", "grey", "red", "green", "yellow", "blue", "magenta", "cyan",
     "light_grey", "dark_grey", "light_red", "light_green", "light_yellow",
     "light_blue", "light_magenta", "light_cyan", "white"}

\* The escape sequence that sets a colour, written with the colour's name
\* where the terminal has its number, and the one that resets it
Escape(c) == "\\033[" \o c \o "m"
Reset == "\\033[0m"
Escapes == {Escape(c) : c \in Colors} \cup {Reset}

\* termcolor.colored(char, color), which raises KeyError for a name that
\* is none of its colours (ColoredRaises)
colored(char, c) == <<Escape(c), char, Reset>>
ColoredRaises(c) == c \notin Colors

\* A printed line with its escape sequences removed
Plain(line) == SelectSeq(line, LAMBDA t : t \notin Escapes)

----------------------------------------------------------------------------
(* colorize                                                                *)

\* lines 66-69
RECURSIVE matching_indexes_from(_, _)
matching_indexes_from(fuzzable, k) ==
    IF k > Len(fuzzable.shared) THEN <<>>
    ELSE SharedDict(fuzzable)[fuzzable.shared[k]][2]
         \o matching_indexes_from(fuzzable, k + 1)

matching_indexes(fuzzable) == Range(matching_indexes_from(fuzzable, 1))

\* str(path.absolute()) of line 77
ColorizeText(fuzzable) == absolute(PathStr(fuzzable.path))

\* lines 74-81: output after the characters of Python index < n
RECURSIVE ColorizeOutput(_, _, _)
ColorizeOutput(fuzzable, c, n) ==
    IF n = 0 THEN <<>>
    ELSE LET idx == n - 1
             char == ColorizeText(fuzzable)[n]
         IN ColorizeOutput(fuzzable, c, n - 1)
            \o (IF idx \in matching_indexes(fuzzable)
                THEN colored(char, c) ELSE <<char>>)

\* colored is called, and raises for a name that is no colour, when some
\* index of the text is a matching index
ColorizeRaises(fuzzable, c) ==
    /\ ColoredRaises(c)
    /\ \E idx \in matching_indexes(fuzzable) : idx < Len(ColorizeText(fuzzable))

\* line 75 and line 83
colorize(fuzzable, c) ==
    LET dirname == parent(PathStr(fuzzable.path))
        output == ColorizeOutput(fuzzable, c, Len(ColorizeText(fuzzable)))
    IN os_path_join(dirname, output)

----------------------------------------------------------------------------
(* The run of the program: the command line, then main                     *)

\* "\\xe9" stands for a character that is not in string.printable
apple_txt == <<"a", "p", "p", "l", "e", ".", "t", "x", "t">>
banana_txt == <<"b", "a", "n", "a", "n", "a", ".", "t", "x", "t">>
grape_txt == <<"g", "r", "a", "p", "e", ".", "t", "x", "t">>
cape_accent == <<"c", "a", "p", "\\xe9">>

EntryNames == {apple_txt, banana_txt, grape_txt, cape_accent}

\* The orders in which a directory of at most MaxEntries entries is yielded
Listings ==
    {l \in UNION {[1..n -> EntryNames] : n \in 0..MaxEntries} :
        \A i \in 1..Len(l) : \A j \in 1..Len(l) : i # j => l[i] # l[j]}

PathArgs == {<<"d", "/">>, <<"/", "p">>}

QueryArgs == {<<>>, <<"a", "p">>, <<"/">>, <<"\\xe9">>}

\* What follows -c/--color on the command line, <<>> when it is not given
ColorArgs == {<<>>} \cup {<<c>> : c \in Colors \cup {"purple"}}

Init ==
    /\ pc = "cli"
    /\ \E p \in PathArgs, q \in QueryArgs, c \in ColorArgs,
          k \in {"dir", "file", "missing"}, l \in Listings :
          /\ k # "dir" => l = <<>>
          /\ env = [path |-> p, query |-> q, color_arg |-> c, kind |-> k,
                    entries |-> l]
    /\ color = "" /\ files_iter = <<>>
    /\ fuzzable_query = Unbound /\ fuzzable_file = Unbound /\ ret = "unset"
    /\ stdout = <<>> /\ stderr = <<>> /\ exit_code = -1
    /\ n_fuzzable = 0 /\ n_compare = 0 /\ n_colorize = 0

\* main's parameters: path is pathlib.Path(args.path), query is args.query
path == PathStr(env.path)
query == env.query

\* args.color (line 122): with nargs=1 a given name is stored as a list of
\* one string; the default is stored as it is written, the string "red"
args_color ==
    IF env.color_arg = <<>> THEN <<"r", "e", "d">> ELSE env.color_arg

\* lines 142-143: parse_args exits with status 2 for a name that is no
\* choice; main receives args.color[0]
ParseArgs ==
    /\ pc = "cli"
    /\ IF env.color_arg # <<>> /\ env.color_arg[1] \notin Colors
       THEN /\ pc' = "usage_error"
            /\ exit_code' = 2
            /\ stderr' = Append(stderr, <<"invalid choice", env.color_arg[1]>>)
            /\ UNCHANGED color
       ELSE /\ pc' = "main"
            /\ color' = args_color[1]
            /\ UNCHANGED <<exit_code, stderr>>
    /\ UNCHANGED <<env, files_iter, fuzzable_query, fuzzable_file, ret, stdout,
                   n_fuzzable, n_compare, n_colorize>>

path_exists == env.kind # "missing"
path_is_dir == env.kind = "dir"

NotExistMsg == <<"Path '", path, "' does not exist.">>
NotDirMsg == <<"Path '", path, "' is not a directory.">>

\* A variant of lines 92-96 that returns once a check has failed
ValidatePathMut ==
    /\ pc = "main"
    /\ IF ~path_exists
       THEN /\ stderr' = stderr \o <<NotExistMsg>>
            /\ pc' = "returned"
       ELSE /\ stderr' = stderr \o (IF ~path_is_dir THEN <<NotDirMsg>> ELSE <<>>)
            /\ pc' = "scandir"
    /\ UNCHANGED <<env, color, files_iter, fuzzable_query, fuzzable_file, ret,
                   stdout, exit_code, n_fuzzable, n_compare, n_colorize>>

\* lines 92-96
ValidatePath ==
    /\ pc = "main"
    /\ stderr' = stderr \o (IF ~path_exists THEN <<NotExistMsg>> ELSE <<>>)
                        \o (IF ~path_is_dir THEN <<NotDirMsg>> ELSE <<>>)
    /\ pc' = "scandir"
    /\ UNCHANGED <<env, color, files_iter, fuzzable_query, fuzzable_file, ret,
                   stdout, exit_code, n_fuzzable, n_compare, n_colorize>>

\* lines 98-101: os.scandir raises FileNotFoundError or NotADirectoryError
\* for what is no directory, which nothing catches
Scandir ==
    /\ pc = "scandir"
    /\ IF ~path_is_dir
       THEN /\ pc' = "raised"
            /\ exit_code' = 1
            /\ UNCHANGED files_iter
       ELSE /\ files_iter' = env.entries
            /\ pc' = IF Len(query) = 0 THEN "list" ELSE "profile_query"
            /\ UNCHANGED exit_code
    /\ UNCHANGED <<env, color, fuzzable_query, fuzzable_file, ret, stdout,
                   stderr, n_fuzzable, n_compare, n_colorize>>

\* A variant of line 103 that prints file.name
EntryPathMut(name) == name

\* file.path of a DirEntry of os.scandir(path)
EntryPath(name) == os_path_join(path, name)

\* lines 102-103
ListEntry ==
    /\ pc = "list"
    /\ files_iter # <<>>
    /\ stdout' = Append(stdout, EntryPath(Head(files_iter)))
    /\ files_iter' = Tail(files_iter)
    /\ UNCHANGED <<pc, env, color, fuzzable_query, fuzzable_file, ret, stderr,
                   exit_code, n_fuzzable, n_compare, n_colorize>>

\* line 104
ExitZero ==
    /\ pc = "list"
    /\ files_iter = <<>>
    /\ pc' = "exited"
    /\ exit_code' = 0
    /\ UNCHANGED <<env, color, files_iter, fuzzable_query, fuzzable_file, ret,
                   stdout, stderr, n_fuzzable, n_compare, n_colorize>>

\* line 106
ProfileQuery ==
    /\ pc = "profile_query"
    /\ n_fuzzable' = n_fuzzable + 1
    /\ IF FuzzableRaises(query)
       THEN /\ pc' = "raised"
            /\ exit_code' = 1
            /\ UNCHANGED fuzzable_query
       ELSE /\ pc' = "scan"
            /\ fuzzable_query' = Fuzzable(query)
            /\ UNCHANGED exit_code
    /\ UNCHANGED <<env, color, files_iter, fuzzable_file, ret, stdout, stderr,
                   n_compare, n_colorize>>

\* The candidate string of line 109
CandidatePath(name) == os_path_join(absolute(path), name)

\* lines 108-111, one iteration: the entry is profiled, compared with the
\* query and, when it matches, colorized and printed.  An exception of
\* Fuzzable or of colorize is caught nowhere and ends the program.
ScanEntry ==
    /\ pc = "scan"
    /\ files_iter # <<>>
    /\ files_iter' = Tail(files_iter)
    /\ n_fuzzable' = n_fuzzable + 1
    /\ LET candidate == CandidatePath(Head(files_iter))
       IN IF FuzzableRaises(candidate)
          THEN /\ pc' = "raised"
               /\ exit_code' = 1
               /\ UNCHANGED <<fuzzable_file, ret, stdout, n_compare, n_colorize>>
          ELSE LET r == compare_dicts(Fuzzable(candidate), fuzzable_query)
               IN /\ fuzzable_file' = r.fuzz1
                  /\ ret' = r.ret
                  /\ n_compare' = n_compare + 1
                  /\ IF ~r.ret
                     THEN UNCHANGED <<pc, exit_code, stdout, n_colorize>>
                     ELSE /\ n_colorize' = n_colorize + 1
                          /\ IF ColorizeRaises(r.fuzz1, color)
                             THEN /\ pc' = "raised"
                                  /\ exit_code' = 1
                                  /\ UNCHANGED stdout
                             ELSE /\ stdout' = Append(stdout, colorize(r.fuzz1, color))
                                  /\ UNCHANGED <<pc, exit_code>>
    /\ UNCHANGED <<env, color, fuzzable_query, stderr>>

\* main returns when files_iter is exhausted, and the program ends
Return ==
    /\ pc = "scan"
    /\ files_iter = <<>>
    /\ pc' = "returned"
    /\ exit_code' = 0
    /\ UNCHANGED <<env, color, files_iter, fuzzable_query, fuzzable_file, ret,
                   stdout, stderr, n_fuzzable, n_compare, n_colorize>>

Next ==
    \/ ParseArgs
    \/ ValidatePath
    \/ Scandir
    \/ ListEntry
    \/ ExitZero
    \/ ProfileQuery
    \/ ScanEntry
    \/ Return

Spec == Init /\ [][Next]_vars

----------------------------------------------------------------------------
(* Profiling and matching on their own: a candidate and a query are        *)
(* profiled, then compare_dicts is called on the candidate object, with    *)
(* the same query or with a newly profiled one.                            *)

FuzzAlphabet == {"a", "A"}

NoRun ==
    /\ color = "" /\ files_iter = <<>> /\ stdout = <<>> /\ stderr = <<>>
    /\ exit_code = -1 /\ n_colorize = 0

FuzzInit ==
    /\ pc = "fuzz_input"
    /\ env \in [candidate : StringsUpTo(FuzzAlphabet, MaxCandLen),
                query : StringsUpTo(FuzzAlphabet, MaxQueryLen)]
    /\ fuzzable_file = Unbound /\ fuzzable_query = Unbound
    /\ ret = "unset" /\ n_fuzzable = 0 /\ n_compare = 0
    /\ NoRun

\* Fuzzable(candidate), Fuzzable(query)
FuzzProfile ==
    /\ pc = "fuzz_input"
    /\ pc' = "fuzz_ready"
    /\ fuzzable_file' = Fuzzable(env.candidate)
    /\ fuzzable_query' = Fuzzable(env.query)
    /\ n_fuzzable' = n_fuzzable + 2
    /\ UNCHANGED <<env, color, files_iter, ret, stdout, stderr, exit_code,
                   n_compare, n_colorize>>

\* compare_dicts(fuzzable_file, fuzzable_query), a first time and then a
\* second time on the same candidate object
FuzzCompare ==
    /\ pc \in {"fuzz_ready", "fuzz_compared", "fuzz_requeried"}
    /\ pc' = IF pc = "fuzz_ready" THEN "fuzz_compared" ELSE "fuzz_again"
    /\ LET r == compare_dicts(fuzzable_file, fuzzable_query)
       IN /\ fuzzable_file' = r.fuzz1
          /\ ret' = r.ret
    /\ n_compare' = n_compare + 1
    /\ UNCHANGED <<env, color, files_iter, fuzzable_query, stdout, stderr,
                   exit_code, n_fuzzable, n_colorize>>

\* Another query is profiled for the candidate object already compared
FuzzNewQuery ==
    /\ pc = "fuzz_compared"
    /\ pc' = "fuzz_requeried"
    /\ \E q \in StringsUpTo(FuzzAlphabet, MaxQueryLen) :
          /\ env' = [env EXCEPT !.query = q]
          /\ fuzzable_query' = Fuzzable(q)
    /\ n_fuzzable' = n_fuzzable + 1
    /\ UNCHANGED <<color, files_iter, fuzzable_file, ret, stdout, stderr,
                   exit_code, n_compare, n_colorize>>

FuzzNext == FuzzProfile \/ FuzzCompare \/ FuzzNewQuery

FuzzSpec == FuzzInit /\ [][FuzzNext]_vars

----------------------------------------------------------------------------
(* What the claims speak of, stated on the strings themselves              *)

\* The number of occurrences of c in s
Count(s, c) == Cardinality({i \in 1..Len(s) : s[i] = c})

\* The zero-based indices at which c occurs in s
Occurrences(s, c) == {i - 1 : i \in {j \in 1..Len(s) : s[j] = c}}

\* The n smallest elements of a set of numbers
Leftmost(S, n) == {i \in S : Cardinality({j \in S : j < i}) < n}

StrictlyIncreasing(seq) ==
    \A i \in 1..Len(seq) : \A j \in 1..Len(seq) : i < j => seq[i] < seq[j]

\* Multiset containment of the query in the candidate, case-sensitive
Contained(q, cand) ==
    \A c \in Range(q) : Count(cand, c) >= Count(q, c)

RECURSIVE SumCounts(_, _)
SumCounts(nz, keys) ==
    IF keys = {} THEN 0
    ELSE LET k == CHOOSE x \in keys : TRUE
         IN nz[k][1] + SumCounts(nz, keys \ {k})

\* f.non_zero is the profile of the string f.path
ProfileOf(f) ==
    LET s == f.path
        nz == f.non_zero
    IN /\ DOMAIN nz = Range(s)
       /\ \A c \in DOMAIN nz :
             /\ nz[c][1] = Count(s, c)
             /\ StrictlyIncreasing(nz[c][2])
             /\ Range(nz[c][2]) = Occurrences(s, c)
             /\ Len(nz[c][2]) = nz[c][1]
       /\ SumCounts(nz, DOMAIN nz) = Len(s)

\* C1: compare_dicts on a freshly profiled candidate and a query returns True
\* exactly when every character of the query occurs in the candidate at
\* least as often as in the query, and False in every other case.
C1_ContainmentVerdict ==
    pc = "fuzz_compared" =>
        /\ ret \in BOOLEAN
        /\ ret = Contained(env.query, env.candidate)

\* The candidate has every character of the query, but one of them too few
\* times, and the verdict is False.
C1_Witness ==
    /\ pc = "fuzz_compared"
    /\ env.candidate = <<"a", "A">>
    /\ env.query = <<"a", "a", "A">>
    /\ ret = FALSE

\* C2: when compare_dicts returns True for a freshly profiled candidate, the
\* keys of shared are the distinct characters of the query, and the position
\* list of each is the first query.count[c] entries of the candidate's
\* position list: the leftmost occurrences of c, in increasing order.
C2_SharedIsLeftmost ==
    (pc = "fuzz_compared" /\ ret = TRUE) =>
        /\ fuzzable_file.has_shared
        /\ DOMAIN SharedDict(fuzzable_file) = Range(env.query)
        /\ Len(fuzzable_file.shared) = Cardinality(Range(env.query))
        /\ \A c \in Range(env.query) :
              LET positions == SharedDict(fuzzable_file)[c][2]
                  n == Count(env.query, c)
              IN /\ Len(positions) = n
                 /\ StrictlyIncreasing(positions)
                 /\ Range(positions) = Leftmost(Occurrences(env.candidate, c), n)
                 /\ positions = SliceTo(Fuzzable(env.candidate).non_zero[c][2], n)

\* A match in which the query needs fewer occurrences than the candidate has
C2_Witness ==
    /\ pc = "fuzz_compared"
    /\ ret = TRUE
    /\ env.candidate = <<"A", "a", "A", "a">>
    /\ env.query = <<"a", "A">>
    /\ SharedDict(fuzzable_file) = ("a" :> <<2, <<1>>>>) @@ ("A" :> <<2, <<0>>>>)

\* The empty query matches and leaves an empty shared profile
C2_EmptyQueryWitness ==
    /\ pc = "fuzz_compared" /\ ret = TRUE /\ env.query = <<>>
    /\ env.candidate # <<>> /\ fuzzable_file.shared = <<>>

C10_CompareIsPure ==
    pc \in {"fuzz_compared", "fuzz_again"} =>
        /\ fuzzable_query.non_zero = non_zero(env.query)
        /\ fuzzable_file.non_zero = non_zero(env.candidate)
        /\ \A c \in DOMAIN fuzzable_file.non_zero :
              Len(fuzzable_file.non_zero[c][2]) = fuzzable_file.non_zero[c][1]
        /\ pc = "fuzz_again" =>
              LET fresh == compare_dicts(Fuzzable(env.candidate), fuzzable_query)
              IN /\ ret = fresh.ret
                 /\ ret => SharedDict(fuzzable_file) = SharedDict(fresh.fuzz1)

----------------------------------------------------------------------------
(* The claims about the run of the program                                 *)

IsSuffix(t, s) ==
    /\ Len(t) <= Len(s)
    /\ SubSeq(s, Len(s) - Len(t) + 1, Len(s)) = t

\* Some printed line is, its escape sequences aside, a path to the entry
PrintedFor(name) ==
    \E i \in 1..Len(stdout) : IsSuffix(<<"/">> \o name, Plain(stdout[i]))

\* main has ended, by returning or by an exception, on a directory
ScanEnded == pc \in {"returned", "raised"} /\ env.kind = "dir"

\* C4: in a directory that holds exactly apple.txt, banana.txt and
\* grape.txt, whatever its own path, the query "ap" prints a line for
\* apple.txt and one for grape.txt and none for banana.txt.
C4_ApMatchesAppleAndGrapeOnly ==
    ( /\ ScanEnded
      /\ color \in Colors
      /\ query = <<"a", "p">>
      /\ Len(env.entries) = 3
      /\ Range(env.entries) = {apple_txt, banana_txt, grape_txt} )
    => /\ PrintedFor(apple_txt)
       /\ PrintedFor(grape_txt)
       /\ ~PrintedFor(banana_txt)

\* C5: with a non-empty query, every enumerated candidate that contains the
\* query is printed, whatever candidates come before it.
C5_ScanIsNeverAborted ==
    ( /\ ScanEnded
      /\ color \in Colors
      /\ query # <<>>
      /\ ~FuzzableRaises(query) )
    => \A i \in 1..Len(env.entries) :
          LET candidate == CandidatePath(env.entries[i])
          IN (~FuzzableRaises(candidate) /\ Contained(query, candidate))
             => PrintedFor(env.entries[i])

\* The paths of the first n entries of the directory, as os.scandir names
\* them: the directory as main was given it, a separator, the entry's name
EntryPaths(n) == [i \in 1..n |-> path \o <<"/">> \o env.entries[i]]

\* C6: with an empty query on a directory, main prints the path of every
\* entry once, unmodified and in enumeration order, then exits with code 0,
\* and builds no Fuzzable and calls neither compare_dicts nor colorize.
C6_EmptyQueryListsEntries ==
    (pc \notin {"cli", "usage_error"} /\ query = <<>> /\ env.kind = "dir")
    => /\ pc \in {"main", "scandir", "list", "exited"}
       /\ n_fuzzable = 0 /\ n_compare = 0 /\ n_colorize = 0
       /\ pc \in {"main", "scandir"} => stdout = <<>>
       /\ pc = "list" =>
             /\ stdout = EntryPaths(Len(env.entries) - Len(files_iter))
             /\ exit_code = -1
       /\ pc = "exited" =>
             /\ stdout = EntryPaths(Len(env.entries))
             /\ exit_code = 0

\* The listing of a directory of three entries has ended
C6_Witness ==
    /\ pc = "exited" /\ query = <<>> /\ exit_code = 0
    /\ env.entries = <<grape_txt, apple_txt, banana_txt>>
    /\ env.path = <<"d", "/">>
    /\ stdout = << <<"d", "/">> \o grape_txt, <<"d", "/">> \o apple_txt,
                   <<"d", "/">> \o banana_txt >>

\* C7: path validation stops nothing.  For a path that does not exist main
\* writes the 'does not exist' and then the 'is not a directory' message,
\* for an existing non-directory the 'is not a directory' message, and in
\* both cases the next step is the call of os.scandir.
C7_ValidationNeverStops ==
    [][ (pc = "main" /\ env.kind # "dir")
        => /\ pc' = "scandir"
           /\ exit_code' = -1
           /\ env.kind = "missing" => stderr' = stderr \o <<NotExistMsg, NotDirMsg>>
           /\ env.kind = "file" => stderr' = stderr \o <<NotDirMsg>> ]_vars

\* Both messages are written for a missing path and os.scandir is next
C7_Witness ==
    /\ pc = "scandir"
    /\ env.kind = "missing"
    /\ stderr = <<NotExistMsg, NotDirMsg>>
    /\ exit_code = -1

\* C8: the colour name the entry point passes to main is one of the
\* enumerated names: red when -c/--color is not given, the given name
\* otherwise.
C8_ColorIsAChoice ==
    pc \notin {"cli", "usage_error"} =>
        /\ color \in Colors
        /\ env.color_arg = <<>> => color = "red"
        /\ env.color_arg # <<>> => color = env.color_arg[1]

\* p with the characters at the indices of M wrapped in the escape of c
RECURSIVE Highlighted(_, _, _, _)
Highlighted(p, M, c, n) ==
    IF n = 0 THEN <<>>
    ELSE Highlighted(p, M, c, n - 1)
         \o (IF (n - 1) \in M THEN <<Escape(c), p[n], Reset>> ELSE <<p[n]>>)

\* C9: for a matched candidate with absolute path p, colorize returns p with
\* exactly the characters at the shared-profile positions wrapped in the
\* colour escape; without the escapes the result is p, with nothing
\* prepended, duplicated or dropped.
C9_ColorizeKeepsThePath ==
    (pc \in {"scan", "returned"} /\ color \in Colors /\ n_compare > 0 /\ ret = TRUE)
    => LET line == stdout[Len(stdout)]
           p == fuzzable_file.path
       IN /\ Plain(line) = p
          /\ line = Highlighted(p, matching_indexes(fuzzable_file), color, Len(p))

=============================================================================
